---- MODULE Spec2Model ----
(***************************************************************************)
(* PopupWindow (ext/js/app/popup-window.js): a popup hosted in a separate  *)
(* native window, and the channel (_invoke) that delivers messages to it.  *)
(*                                                                         *)
(* JavaScript runs the code between two awaits as one step, so every       *)
(* action below is one such run: a public method from its call to its     *)
(* first await (or to its return), or the continuation of a suspended call *)
(* from the settling of the promise it awaits to its next await (or to its *)
(* return or throw).  The collaborators (crossFrame.invokeTab,             *)
(* api.getOrCreateSearchPopup, api.isTabSearchPopup, webExtension.unloaded)*)
(* are the environment: each awaited promise may resolve with any value of *)
(* a small set or reject, and the teardown flag may flip at any moment.    *)
(*                                                                         *)
(* The code point predicates isCodePointInRange and isCodePointInRanges    *)
(* are pure functions; they are operators here, computed as the code       *)
(* computes them, and RangeSpec applies them to every input of a small     *)
(* domain.                                                                 *)
(***************************************************************************)
EXTENDS Integers, Sequences, FiniteSets, Bags, TLC

\* Bounds of the model.
MaxTab      == 2    \* tab ids the browser hands out are 1..MaxTab
MaxInFlight == 2    \* calls suspended at an await at the same time
MaxCodePoint  == 2  \* code points are 0..MaxCodePoint
MaxRangeCount == 2  \* a list of ranges has at most MaxRangeCount ranges

\* `null` in the field _popupTabId (tab ids are positive).
NoTab == 0
Tabs  == 1..MaxTab

\* JavaScript values that the methods return.
Undefined == "undefined"
JsNull    == "null"
JsFalse   == "false"
JsTrue    == "true"

NotSupported      == "Not supported on PopupWindow"
DeliveryError     == "invokeTab rejected"
ProvisioningError == "getOrCreateSearchPopup rejected"
QueryError        == "isTabSearchPopup rejected"

\* Inputs of the public methods and answers of the collaborators.
Identities      == { [id |-> "popup-a", depth |-> 0, frameId |-> 0],
                     [id |-> "popup-b", depth |-> 1, frameId |-> 3] }
OuterDetails    == {"outer-1"}
DisplayDetails  == {"details-1"}
CssRules        == {"css-1"}
OptionsContexts == {"context-1"}
DeliveryResults == {"result-1", "result-2"}
Popups          == {"popup-x"}
Priorities      == {0, 10}
Tokens          == {"token-1"}
Coordinates     == {0, 5}
Scales          == {1, 2}
Lengths         == {0, 400}

\* Inputs of the code point predicates: a range is a pair [min, max], with
\* any two code points as min and max (an empty range when min > max).
CodePoints == 0..MaxCodePoint
Ranges     == CodePoints \X CodePoints
RangeLists == UNION {[1..n -> Ranges] : n \in 0..MaxRangeCount}

VARIABLES
    id,          \* this._id
    depth,       \* this._depth
    frameId,     \* this._frameId
    popupTabId,  \* this._popupTabId: NoTab or a tab id
    unloaded,    \* this._application.webExtension.unloaded
    inflight,    \* bag of the calls suspended at an await
    ret,         \* the call that completed in the last step, or NoRet
    givenCodePoint,  \* the code point the predicates are applied to
    givenRanges,     \* the list of ranges they are applied to
    verdict          \* the last application and what it returned, or NoVerdict

vars == <<id, depth, frameId, popupTabId, unloaded, inflight, ret,
          givenCodePoint, givenRanges, verdict>>

\* What the popup and its channel leave alone.
rangeVars == <<givenCodePoint, givenRanges, verdict>>

NoRet == [op |-> "none"]

NoVerdict == [fn |-> "none"]

----------------------------------------------------------------------------
\* Calls to the collaborators, as the log of a call records them.

\* crossFrame.invokeTab(tabId, frameId, action, message)
InvokeTabCall(tabId, fId, action, message) ==
    [fn |-> "invokeTab", tabId |-> tabId, frameId |-> fId, action |-> action,
     message |-> message, status |-> "pending", result |-> Undefined]

\* api.getOrCreateSearchPopup({focus})
GetOrCreateSearchPopupCall(focus) ==
    [fn |-> "getOrCreateSearchPopup", focus |-> focus, status |-> "pending",
     tab |-> NoTab]

\* api.isTabSearchPopup(tabId)
IsTabSearchPopupCall(tabId) ==
    [fn |-> "isTabSearchPopup", tabId |-> tabId, status |-> "pending",
     answer |-> Undefined]

\* The log with its last (pending) call settled.
Settle(log, entry) == [log EXCEPT ![Len(log)] = entry]

Deliveries(log)    == {i \in 1..Len(log) : log[i].fn = "invokeTab"}
Provisionings(log) == {i \in 1..Len(log) : log[i].fn = "getOrCreateSearchPopup"}
Rejections(log)    == {i \in 1..Len(log) : log[i].status = "rejected"}

----------------------------------------------------------------------------
\* Completion of a public method in one step, without any await.
Immediate(op, args, outcome, value) ==
    [op |-> op, args |-> args, outcome |-> outcome, value |-> value,
     invoked |-> FALSE, log |-> << >>,
     tabAtCall |-> popupTabId, unloadedAtCall |-> unloaded]

\* Completion of a suspended method that does not go through _invoke.
Direct(c, outcome, value, log) ==
    [op |-> c.op, args |-> << >>, outcome |-> outcome, value |-> value,
     invoked |-> FALSE, log |-> log,
     tabAtCall |-> c.tabAtCall, unloadedAtCall |-> c.unloadedAtCall]

\* Completion of a method that went through _invoke: `invokeOutcome` and
\* `invokeValue` are what _invoke returned or threw; the method itself
\* awaits it and returns nothing.
ViaInvoke(c, invokeOutcome, invokeValue, log) ==
    [op |-> c.op, args |-> c.args,
     outcome |-> invokeOutcome,
     value |-> IF invokeOutcome = "returned" THEN Undefined ELSE invokeValue,
     invoked |-> TRUE, open |-> c.open, action |-> c.action,
     params |-> c.params,
     invokeOutcome |-> invokeOutcome, invokeValue |-> invokeValue,
     log |-> log,
     tabAtCall |-> c.tabAtCall, unloadedAtCall |-> c.unloadedAtCall]

Suspend(c) ==
    /\ BagCardinality(inflight) < MaxInFlight
    /\ inflight' = inflight (+) SetToBag({c})
    /\ ret' = NoRet
    /\ UNCHANGED rangeVars

Resume(c, d) ==
    /\ inflight' = (inflight (-) SetToBag({c})) (+) SetToBag({d})
    /\ ret' = NoRet
    /\ UNCHANGED rangeVars

Finish(c, r) ==
    /\ inflight' = inflight (-) SetToBag({c})
    /\ ret' = r
    /\ UNCHANGED rangeVars

Return(r) ==
    /\ ret' = r
    /\ UNCHANGED inflight
    /\ UNCHANGED rangeVars

----------------------------------------------------------------------------
\* The popup after its constructor, with no call made yet.
Constructed ==
    /\ \E i \in Identities :
          /\ id = i.id
          /\ depth = i.depth
          /\ frameId = i.frameId
    /\ popupTabId = NoTab
    /\ unloaded = FALSE
    /\ inflight = EmptyBag
    /\ ret = NoRet

Init ==
    /\ Constructed
    /\ givenCodePoint = 0
    /\ givenRanges = << >>
    /\ verdict = NoVerdict

----------------------------------------------------------------------------
\* PopupWindow._invoke(open, action, params)

\* A teardown check that never sees the teardown.
TornDownNeverSeen == FALSE

\* line 279: the teardown check that opens _invoke.
TornDown == unloaded

\* line 283: the message {action, params}.
Message(action, params) == [action |-> action, params |-> params]

\* The delivery addressed to the frame the popup was constructed with.
PopupFrameId == frameId

\* line 285: const frameId = 0.
InvokeFrameId == 0

\* lines 291 and 312: the action the message travels under.
Envelope == "displayPopupMessage2"

\* A catch block that does not look at the teardown flag.
OpenAfterRejectionTeardownUnseen(open) == open

\* lines 294-298: the catch block; teardown observed there suppresses the
\* creation of a new window.
OpenAfterRejection(open) == IF unloaded THEN FALSE ELSE open

\* The tab id survives a rejected delivery.
TabKeptAfterRejection == popupTabId

\* line 299: the tab id is dropped after a rejected delivery.
TabAfterRejection == NoTab

\* A creation step that does not look at `open`.
CreationAlways(open) == TRUE

\* The fallback that never asks for a new window.
CreationNever(open) == FALSE

\* line 302: if (!open) { return void 0; }
CreationRequested(open) == open

\* The new tab id is not recorded.
TabIdNotRecorded(tabId) == popupTabId

\* A serialized recording: the first tab id stays, a later one is dropped.
FirstTabIdKept(tabId) == IF popupTabId # NoTab THEN popupTabId ELSE tabId

\* line 307: this._popupTabId = tabId.
RecordedTabId(tabId) == tabId

\* lines 278-306, from the call to the first await or to the return.  `op`
\* and `args` are the public method that called _invoke and its arguments.
Invoke(op, args, open, action, params) ==
    LET call(pc, log) ==
            [op |-> op, args |-> args,
             open |-> open, action |-> action, params |-> params,
             pc |-> pc, log |-> log,
             tabAtCall |-> popupTabId, unloadedAtCall |-> unloaded]
    IN  /\ UNCHANGED <<id, depth, frameId, popupTabId, unloaded>>
        /\ IF TornDown
             THEN Return(ViaInvoke(call("return", << >>), "returned", Undefined, << >>))
           ELSE IF popupTabId # NoTab
             THEN Suspend(call("existing",
                      << InvokeTabCall(popupTabId, InvokeFrameId, Envelope,
                                       Message(action, params)) >>))
           ELSE IF ~CreationRequested(open)
             THEN Return(ViaInvoke(call("return", << >>), "returned", Undefined, << >>))
           ELSE Suspend(call("provision",
                      << GetOrCreateSearchPopupCall("ifCreated") >>))

\* lines 288-293: the delivery to the recorded tab resolves; its result is
\* returned.
InvokeTabExistingResolved(c, result) ==
    /\ c.pc = "existing"
    /\ Finish(c, ViaInvoke(c, "returned", result,
                   Settle(c.log, [c.log[Len(c.log)] EXCEPT
                                     !.status = "resolved", !.result = result])))
    /\ UNCHANGED <<id, depth, frameId, popupTabId, unloaded>>

\* The delivery to the recorded tab rejects and nothing catches it.
InvokeTabExistingRejectedUncaught(c) ==
    /\ c.pc = "existing"
    /\ Finish(c, ViaInvoke(c, "threw", DeliveryError,
                   Settle(c.log, [c.log[Len(c.log)] EXCEPT !.status = "rejected"])))
    /\ UNCHANGED <<id, depth, frameId, popupTabId, unloaded>>

\* lines 294-306: the delivery to the recorded tab rejects; the tab id is
\* dropped, and a new window is asked for when `open` still holds.
InvokeTabExistingRejected(c) ==
    LET log1 == Settle(c.log, [c.log[Len(c.log)] EXCEPT !.status = "rejected"])
    IN  /\ c.pc = "existing"
        /\ popupTabId' = TabAfterRejection
        /\ IF ~CreationRequested(OpenAfterRejection(c.open))
             THEN Finish(c, ViaInvoke(c, "returned", Undefined, log1))
             ELSE Resume(c, [c EXCEPT
                      !.pc = "provision",
                      !.log = Append(log1, GetOrCreateSearchPopupCall("ifCreated"))])
        /\ UNCHANGED <<id, depth, frameId, unloaded>>

\* lines 306-314: getOrCreateSearchPopup resolves with {tabId}; the id is
\* recorded and the message is sent to it.
GetOrCreateSearchPopupResolved(c, tabId) ==
    LET log1 == Settle(c.log, [c.log[Len(c.log)] EXCEPT
                                  !.status = "resolved", !.tab = tabId])
    IN  /\ c.pc = "provision"
        /\ popupTabId' = RecordedTabId(tabId)
        /\ Resume(c, [c EXCEPT
                 !.pc = "fresh",
                 !.log = Append(log1,
                            InvokeTabCall(popupTabId', InvokeFrameId, Envelope,
                                          Message(c.action, c.params)))])
        /\ UNCHANGED <<id, depth, frameId, unloaded>>

\* getOrCreateSearchPopup rejects and the error is swallowed.
GetOrCreateSearchPopupRejectedCaught(c) ==
    /\ c.pc = "provision"
    /\ Finish(c, ViaInvoke(c, "returned", Undefined,
                   Settle(c.log, [c.log[Len(c.log)] EXCEPT !.status = "rejected"])))
    /\ UNCHANGED <<id, depth, frameId, popupTabId, unloaded>>

\* line 306: getOrCreateSearchPopup rejects; nothing catches it.
GetOrCreateSearchPopupRejected(c) ==
    /\ c.pc = "provision"
    /\ Finish(c, ViaInvoke(c, "threw", ProvisioningError,
                   Settle(c.log, [c.log[Len(c.log)] EXCEPT !.status = "rejected"])))
    /\ UNCHANGED <<id, depth, frameId, popupTabId, unloaded>>

\* lines 309-314: the delivery to the new tab resolves; its result is returned.
InvokeTabFreshResolved(c, result) ==
    /\ c.pc = "fresh"
    /\ Finish(c, ViaInvoke(c, "returned", result,
                   Settle(c.log, [c.log[Len(c.log)] EXCEPT
                                     !.status = "resolved", !.result = result])))
    /\ UNCHANGED <<id, depth, frameId, popupTabId, unloaded>>

\* The delivery to the new tab rejects and the call asks for another window.
InvokeTabFreshRejectedRetry(c) ==
    /\ c.pc = "fresh"
    /\ popupTabId' = NoTab
    /\ Resume(c, [c EXCEPT
             !.pc = "provision",
             !.log = Append(Settle(c.log, [c.log[Len(c.log)] EXCEPT !.status = "rejected"]),
                            GetOrCreateSearchPopupCall("ifCreated"))])
    /\ UNCHANGED <<id, depth, frameId, unloaded>>

\* lines 309-314: the delivery to the new tab rejects; nothing catches it.
InvokeTabFreshRejected(c) ==
    /\ c.pc = "fresh"
    /\ Finish(c, ViaInvoke(c, "threw", DeliveryError,
                   Settle(c.log, [c.log[Len(c.log)] EXCEPT !.status = "rejected"])))
    /\ UNCHANGED <<id, depth, frameId, popupTabId, unloaded>>

----------------------------------------------------------------------------
\* The methods that go through _invoke.

setOptionsContext(optionsContext) ==
    Invoke("setOptionsContext", <<optionsContext>>,
           FALSE, "displaySetOptionsContext",
           <<"optionsContext", optionsContext>>)

\* showContent without its first line.
showContentWithoutNullCheck(details, displayDetails) ==
    Invoke("showContent", <<details, displayDetails>>,
           TRUE, "displaySetContent", <<"details", displayDetails>>)

showContent(details, displayDetails) ==
    IF displayDetails = JsNull
      THEN /\ Return(Immediate("showContent", <<details, displayDetails>>,
                               "returned", Undefined))
           /\ UNCHANGED <<id, depth, frameId, popupTabId, unloaded>>
      ELSE Invoke("showContent", <<details, displayDetails>>,
                  TRUE, "displaySetContent", <<"details", displayDetails>>)

setCustomCss(css) ==
    Invoke("setCustomCss", <<css>>,
           FALSE, "displaySetCustomCss", <<"css", css>>)

clearAutoPlayTimer ==
    Invoke("clearAutoPlayTimer", << >>,
           FALSE, "displayAudioClearAutoPlayTimer", << >>)

----------------------------------------------------------------------------
\* isVisible without the null test of line 147.
isVisibleWithoutNullCheck ==
    /\ UNCHANGED <<id, depth, frameId, popupTabId, unloaded>>
    /\ Suspend([op |-> "isVisible", pc |-> "query",
                log |-> << IsTabSearchPopupCall(popupTabId) >>,
                tabAtCall |-> popupTabId, unloadedAtCall |-> unloaded])

\* isVisible, lines 146-148:
\*   this._popupTabId !== null && await api.isTabSearchPopup(this._popupTabId)
isVisible ==
    /\ UNCHANGED <<id, depth, frameId, popupTabId, unloaded>>
    /\ IF popupTabId = NoTab
         THEN Return(Immediate("isVisible", << >>, "returned", JsFalse))
         ELSE Suspend([op |-> "isVisible", pc |-> "query",
                       log |-> << IsTabSearchPopupCall(popupTabId) >>,
                       tabAtCall |-> popupTabId, unloadedAtCall |-> unloaded])

IsTabSearchPopupResolved(c, answer) ==
    /\ c.pc = "query"
    /\ Finish(c, Direct(c, "returned", answer,
                   Settle(c.log, [c.log[Len(c.log)] EXCEPT
                                     !.status = "resolved", !.answer = answer])))
    /\ UNCHANGED <<id, depth, frameId, popupTabId, unloaded>>

IsTabSearchPopupRejected(c) ==
    /\ c.pc = "query"
    /\ Finish(c, Direct(c, "threw", QueryError,
                   Settle(c.log, [c.log[Len(c.log)] EXCEPT !.status = "rejected"])))
    /\ UNCHANGED <<id, depth, frameId, popupTabId, unloaded>>

----------------------------------------------------------------------------
\* The members of PopupWindow that never await and never touch the channel.

Sync(op, args, outcome, value) ==
    /\ Return(Immediate(op, args, outcome, value))
    /\ UNCHANGED <<id, depth, frameId, popupTabId, unloaded>>

getId                 == Sync("get id", << >>, "returned", id)
getParent             == Sync("get parent", << >>, "returned", JsNull)
setParentAccepted(value) == Sync("set parent", <<value>>, "returned", Undefined)
setParent(value)      == Sync("set parent", <<value>>, "threw", NotSupported)
getChild              == Sync("get child", << >>, "returned", JsNull)
setChild(value)       == Sync("set child", <<value>>, "threw", NotSupported)
getDepth              == Sync("get depth", << >>, "returned", depth)
getFrameContentWindow == Sync("get frameContentWindow", << >>, "returned", JsNull)
getContainer          == Sync("get container", << >>, "returned", JsNull)
getFrameId            == Sync("get frameId", << >>, "returned", frameId)

hide(changeFocus) ==
    Sync("hide", <<changeFocus>>, "returned", Undefined)
setVisibleOverrideWithToken(value, priority) ==
    Sync("setVisibleOverride", <<value, priority>>, "returned", "token-1")
setVisibleOverride(value, priority) ==
    Sync("setVisibleOverride", <<value, priority>>, "returned", JsNull)
clearVisibleOverride(token) ==
    Sync("clearVisibleOverride", <<token>>, "returned", JsFalse)
containsPoint(x, y) ==
    Sync("containsPoint", <<x, y>>, "returned", JsFalse)
setContentScale(scale) ==
    Sync("setContentScale", <<scale>>, "returned", Undefined)
isVisibleSync ==
    Sync("isVisibleSync", << >>, "threw", NotSupported)
updateTheme ==
    Sync("updateTheme", << >>, "returned", Undefined)
setCustomOuterCss(css, useWebExtensionApi) ==
    Sync("setCustomOuterCss", <<css, useWebExtensionApi>>, "returned", Undefined)
getFrameRect ==
    Sync("getFrameRect", << >>, "returned",
         [left |-> 0, top |-> 0, right |-> 0, bottom |-> 0, valid |-> FALSE])
getFrameSize ==
    Sync("getFrameSize", << >>, "returned",
         [width |-> 0, height |-> 0, valid |-> FALSE])
setFrameSize(width, height) ==
    Sync("setFrameSize", <<width, height>>, "returned", JsFalse)

----------------------------------------------------------------------------
\* The extension is torn down: webExtension.unloaded turns true and stays so.
Unload ==
    /\ ~unloaded
    /\ unloaded' = TRUE
    /\ ret' = NoRet
    /\ UNCHANGED <<id, depth, frameId, popupTabId, inflight>>
    /\ UNCHANGED rangeVars

\* A method that reaches the channel is called.
Calls ==
    \/ \E x \in OptionsContexts : setOptionsContext(x)
    \/ \E d \in OuterDetails, x \in DisplayDetails \cup {JsNull} : showContent(d, x)
    \/ \E x \in CssRules : setCustomCss(x)
    \/ clearAutoPlayTimer
    \/ isVisible

\* A promise that a suspended call of _invoke awaits settles, and the call
\* runs on.
ChannelSettlements ==
    \/ \E c \in BagToSet(inflight), r \in DeliveryResults : InvokeTabExistingResolved(c, r)
    \/ \E c \in BagToSet(inflight) : InvokeTabExistingRejected(c)
    \/ \E c \in BagToSet(inflight), t \in Tabs : GetOrCreateSearchPopupResolved(c, t)
    \/ \E c \in BagToSet(inflight) : GetOrCreateSearchPopupRejected(c)
    \/ \E c \in BagToSet(inflight), r \in DeliveryResults : InvokeTabFreshResolved(c, r)
    \/ \E c \in BagToSet(inflight) : InvokeTabFreshRejected(c)

\* The promise that a suspended call of isVisible awaits settles.
QuerySettlements ==
    \/ \E c \in BagToSet(inflight), a \in {JsTrue, JsFalse} : IsTabSearchPopupResolved(c, a)
    \/ \E c \in BagToSet(inflight) : IsTabSearchPopupRejected(c)

\* A member that stays inside the popup object is used.
Capabilities ==
    \/ getId
    \/ getParent
    \/ \E v \in Popups : setParent(v)
    \/ getChild
    \/ \E v \in Popups : setChild(v)
    \/ getDepth
    \/ getFrameContentWindow
    \/ getContainer
    \/ getFrameId
    \/ \E f \in {JsTrue, JsFalse} : hide(f)
    \/ \E v \in {JsTrue, JsFalse}, p \in Priorities : setVisibleOverride(v, p)
    \/ \E t \in Tokens : clearVisibleOverride(t)
    \/ \E x \in Coordinates, y \in Coordinates : containsPoint(x, y)
    \/ \E k \in Scales : setContentScale(k)
    \/ isVisibleSync
    \/ updateTheme
    \/ \E x \in CssRules, u \in {JsTrue, JsFalse} : setCustomOuterCss(x, u)
    \/ getFrameRect
    \/ getFrameSize
    \/ \E w \in Lengths, h \in Lengths : setFrameSize(w, h)

Settlements == ChannelSettlements \/ QuerySettlements

\* The channel: calls of the methods that reach it, overlapping freely.
Next == Calls \/ Settlements \/ Unload

Spec == Init /\ [][Next]_vars

\* The channel when every promise that _invoke awaits is settled in the end.
FairSpec == Spec /\ WF_vars(ChannelSettlements)

\* The whole capability interface, used by a caller that awaits each channel
\* call before it makes the next one.
CapabilityNext ==
    \/ Capabilities
    \/ (inflight = EmptyBag /\ Calls)
    \/ Settlements
    \/ Unload

CapabilitySpec == Init /\ [][CapabilityNext]_vars

----------------------------------------------------------------------------
\* The code point predicates (the Japanese text utilities).

\* The range test with its upper end left out.
isCodePointInRangeExclusive(codePoint, range) ==
    codePoint >= range[1] /\ codePoint < range[2]

\* isCodePointInRange(codePoint, [min, max]):
\*   return (codePoint >= min && codePoint <= max)
isCodePointInRange(codePoint, range) ==
    codePoint >= range[1] /\ codePoint <= range[2]

\* The loop of isCodePointInRanges from the i-th range on: the first range
\* that holds the code point returns true, the end of the list false.
RECURSIVE RangesLoop(_, _, _)
RangesLoop(codePoint, ranges, i) ==
    IF i > Len(ranges) THEN FALSE
    ELSE IF codePoint >= ranges[i][1] /\ codePoint <= ranges[i][2] THEN TRUE
    ELSE RangesLoop(codePoint, ranges, i + 1)

\* isCodePointInRanges(codePoint, ranges)
isCodePointInRanges(codePoint, ranges) == RangesLoop(codePoint, ranges, 1)

\* The predicates are applied to inputs drawn at the start.
RangeInit ==
    /\ Constructed
    /\ givenCodePoint \in CodePoints
    /\ givenRanges \in RangeLists
    /\ verdict = NoVerdict

ApplyIsCodePointInRange ==
    /\ \E i \in 1..Len(givenRanges) :
          verdict' = [fn |-> "isCodePointInRange", range |-> givenRanges[i],
                      value |-> isCodePointInRange(givenCodePoint, givenRanges[i])]
    /\ UNCHANGED <<id, depth, frameId, popupTabId, unloaded, inflight, ret>>
    /\ UNCHANGED <<givenCodePoint, givenRanges>>

ApplyIsCodePointInRanges ==
    /\ verdict' = [fn |-> "isCodePointInRanges",
                   value |-> isCodePointInRanges(givenCodePoint, givenRanges)]
    /\ UNCHANGED <<id, depth, frameId, popupTabId, unloaded, inflight, ret>>
    /\ UNCHANGED <<givenCodePoint, givenRanges>>

RangeNext == ApplyIsCodePointInRange \/ ApplyIsCodePointInRanges

RangeSpec == RangeInit /\ [][RangeNext]_vars

----------------------------------------------------------------------------
\* Vocabulary of the properties.

\* c is a call of _invoke suspended at an await.
Channel(c) == c.pc \in {"existing", "provision", "fresh"}

\* A call that went through _invoke completed in the last step.
ViaChannel == ret.op # "none" /\ ret.invoked

\* The suspended call c runs on in this step.
Acted(c) == CopiesIn(c, inflight') < CopiesIn(c, inflight)

\* The call d is suspended (anew, or at its next await) in this step.
Arrived(d) == CopiesIn(d, inflight') > CopiesIn(d, inflight)

OpenFalseMethods == {"setOptionsContext", "setCustomCss", "clearAutoPlayTimer"}

----------------------------------------------------------------------------
\* C1: when webExtension.unloaded is true at the start of _invoke, the call
\* returns undefined at once, whatever `open` and the tab id are: it calls
\* neither invokeTab nor getOrCreateSearchPopup (so it is never suspended)
\* and leaves _popupTabId as it was.
C1_TeardownReturnsAbsent ==
    /\ \A c \in BagToSet(inflight) : Channel(c) => ~c.unloadedAtCall
    /\ (ViaChannel /\ ret.unloadedAtCall) =>
          /\ ret.invokeOutcome = "returned"
          /\ ret.invokeValue = Undefined
          /\ ret.log = << >>
          /\ popupTabId = ret.tabAtCall

\* A call with open = true and a recorded tab returned under teardown.
C1_Witness ==
    /\ ViaChannel
    /\ ret.unloadedAtCall
    /\ ret.open
    /\ ret.tabAtCall # NoTab

----------------------------------------------------------------------------
C2_Never ==
    /\ \A c \in BagToSet(inflight) : Channel(c) =>
          /\ c.op \in OpenFalseMethods => ~c.open
          /\ ~c.open => Provisionings(c.log) = {}
    /\ ViaChannel =>
          /\ ret.op \in OpenFalseMethods => ~ret.open
          /\ ~ret.open => Provisionings(ret.log) = {}
          /\ (~ret.open /\ ret.tabAtCall = NoTab) =>
                /\ ret.log = << >>
                /\ ret.invokeOutcome = "returned"
                /\ ret.invokeValue = Undefined

C2_Step ==
    /\ \A c \in BagToSet(inflight) :
          (Channel(c) /\ ~c.open /\ Acted(c)) => popupTabId' \in {popupTabId, NoTab}
    /\ \A d \in BagToSet(inflight') :
          (Channel(d) /\ ~d.open /\ Arrived(d)) => popupTabId' = popupTabId
    /\ (ret'.op # "none" /\ ret'.invoked /\ ~ret'.open /\ ret'.log = << >>) =>
          popupTabId' = popupTabId

\* C2: a call of _invoke with open = false never calls
\* getOrCreateSearchPopup, however its delivery ends; with no tab recorded at
\* its start it returns undefined without calling any collaborator.
\* setOptionsContext, setCustomCss and clearAutoPlayTimer pass open = false,
\* and no step of such a call turns _popupTabId from null into a tab id.
C2_OpenFalseNeverProvisions == []C2_Never /\ [][C2_Step]_vars

\* A call with open = false whose delivery to the recorded tab was rejected
\* has returned.
C2_Witness ==
    /\ ViaChannel
    /\ ~ret.open
    /\ ret.tabAtCall # NoTab
    /\ Rejections(ret.log) # {}

----------------------------------------------------------------------------
\* The call began with no tab recorded, open = true and no teardown.
FromAbsent(c) == c.open /\ c.tabAtCall = NoTab /\ ~c.unloadedAtCall

\* The statement of C3 as it was made: when such a call returns after a
\* successful delivery, _popupTabId holds the id that the call recorded.
C3_HandleStillHeldAtReturn ==
    (/\ ViaChannel
     /\ FromAbsent(ret)
     /\ Len(ret.log) = 2
     /\ ret.log[2].status = "resolved") =>
        /\ ret.log[1].fn = "getOrCreateSearchPopup"
        /\ ret.log[2].fn = "invokeTab"
        /\ ret.log[2].tabId = ret.log[1].tab
        /\ ret.invokeOutcome = "returned"
        /\ ret.invokeValue = ret.log[2].result
        /\ popupTabId = ret.log[1].tab

C3_Log ==
    /\ \A c \in BagToSet(inflight) : (Channel(c) /\ FromAbsent(c)) =>
          /\ c.log[1].fn = "getOrCreateSearchPopup"
          /\ c.pc \in {"provision", "fresh"}
          /\ c.pc = "provision" => Len(c.log) = 1
          /\ c.pc = "fresh" =>
                /\ Len(c.log) = 2
                /\ c.log[1].status = "resolved"
                /\ c.log[2].fn = "invokeTab"
                /\ c.log[2].tabId = c.log[1].tab
    /\ (ViaChannel /\ FromAbsent(ret)) =>
          /\ Len(ret.log) \in {1, 2}
          /\ ret.log[1].fn = "getOrCreateSearchPopup"
          /\ Len(ret.log) = 1 => ret.log[1].status = "rejected"
          /\ Len(ret.log) = 2 =>
                /\ ret.log[1].status = "resolved"
                /\ ret.log[2].fn = "invokeTab"
                /\ ret.log[2].tabId = ret.log[1].tab
                /\ ret.log[2].status = "resolved" =>
                      /\ ret.invokeOutcome = "returned"
                      /\ ret.invokeValue = ret.log[2].result

C3_Step ==
    \* the step that receives the new tab id records it and sends to it
    /\ \A d \in BagToSet(inflight') :
          (Channel(d) /\ d.pc = "fresh" /\ Arrived(d)) =>
              /\ popupTabId' = d.log[Len(d.log) - 1].tab
              /\ popupTabId' = d.log[Len(d.log)].tabId
    \* the step that receives the answer of the new tab leaves the id alone
    /\ \A c \in BagToSet(inflight) :
          (Channel(c) /\ c.pc = "fresh" /\ Acted(c)) => popupTabId' = popupTabId

\* C3 (amended): with no tab recorded and no teardown, a call of _invoke
\* with open = true (showContent with details) calls getOrCreateSearchPopup
\* once, records the tab id it returns, and only then calls invokeTab once,
\* for that tab id; when the delivery succeeds it returns the delivered
\* result.  The call itself never changes _popupTabId after recording it,
\* so at the return the field still holds that id unless an overlapping
\* call changed it in between.
C3_ProvisionThenDeliver == []C3_Log /\ [][C3_Step]_vars

\* showContent on a popup without a tab returned after one provisioning and
\* one successful delivery, and the recorded id is still there.
C3_Witness ==
    /\ ViaChannel
    /\ ret.op = "showContent"
    /\ FromAbsent(ret)
    /\ Len(ret.log) = 2
    /\ ret.log[2].status = "resolved"
    /\ popupTabId = ret.log[1].tab

----------------------------------------------------------------------------
\* The delivery of c to the recorded tab is rejected in this step.
ExistingRejectedStep(c) ==
    /\ Channel(c)
    /\ c.pc = "existing"
    /\ Acted(c)
    /\ ret'.op = "none" \/ ret'.log[1].status = "rejected"

C4_Log ==
    /\ \A c \in BagToSet(inflight) :
          (Channel(c) /\ c.log[1].fn = "invokeTab" /\ Len(c.log) >= 2) =>
              /\ c.open
              /\ c.log[1].status = "rejected"
              /\ c.log[2].fn = "getOrCreateSearchPopup"
              /\ c.pc = "provision" => Len(c.log) = 2
              /\ c.pc = "fresh" =>
                    /\ Len(c.log) = 3
                    /\ c.log[3].fn = "invokeTab"
                    /\ c.log[3].tabId = c.log[2].tab
    /\ (/\ ViaChannel
        /\ Len(ret.log) >= 1
        /\ ret.log[1].fn = "invokeTab"
        /\ ret.log[1].status = "rejected") =>
          /\ ~ret.open =>
                /\ Len(ret.log) = 1
                /\ ret.invokeOutcome = "returned"
                /\ ret.invokeValue = Undefined
          /\ Len(ret.log) >= 2 =>
                /\ ret.open
                /\ ret.log[2].fn = "getOrCreateSearchPopup"
                /\ Cardinality(Provisionings(ret.log)) = 1
                /\ Len(ret.log) <= 3
          /\ Len(ret.log) = 3 =>
                /\ ret.log[3].fn = "invokeTab"
                /\ ret.log[3].tabId = ret.log[2].tab
                /\ ret.log[3].status = "rejected" =>
                      /\ ret.invokeOutcome = "threw"
                      /\ ret.invokeValue = DeliveryError
                /\ ret.log[3].status = "resolved" =>
                      /\ ret.invokeOutcome = "returned"
                      /\ ret.invokeValue = ret.log[3].result

C4_Step ==
    \A c \in BagToSet(inflight) : ExistingRejectedStep(c) =>
        /\ popupTabId' = NoTab
        /\ (~unloaded /\ c.open) =>
              /\ ret'.op = "none"
              /\ \E d \in BagToSet(inflight') :
                    /\ Arrived(d)
                    /\ d.pc = "provision"
                    /\ Len(d.log) = 2
                    /\ d.log[1] = [c.log[1] EXCEPT !.status = "rejected"]
                    /\ d.log[2] = GetOrCreateSearchPopupCall("ifCreated")
        /\ ~c.open =>
              /\ ret'.op # "none"
              /\ ret'.invokeOutcome = "returned"
              /\ ret'.invokeValue = Undefined
              /\ Len(ret'.log) = 1
              /\ \A d \in BagToSet(inflight') : ~Arrived(d)

\* C4: when invokeTab to the recorded tab is rejected (no teardown),
\* _invoke sets _popupTabId to null; with open = true it then calls
\* getOrCreateSearchPopup once and invokeTab once for the new tab, and a
\* rejection of that second delivery is thrown to the caller; with
\* open = false it returns undefined without another collaborator call.
C4_FailedDeliveryRecovery == []C4_Log /\ [][C4_Step]_vars

\* Both deliveries of one call were rejected and the call threw.
C4_Witness ==
    /\ ViaChannel
    /\ Len(ret.log) = 3
    /\ ret.log[1].status = "rejected"
    /\ ret.log[3].status = "rejected"
    /\ ret.invokeOutcome = "threw"

----------------------------------------------------------------------------
\* The collaborator calls of one call of _invoke that began with
\* _popupTabId = tabAtCall: at most one invokeTab for that tab, then at most
\* one getOrCreateSearchPopup, then at most one invokeTab for the new tab.
WellOrdered(log, tabAtCall) ==
    /\ Len(log) <= 3
    /\ Cardinality(Deliveries(log)) <= 2
    /\ Cardinality(Provisionings(log)) <= 1
    /\ \A i \in Deliveries(log) :
          \/ /\ i = 1
             /\ tabAtCall # NoTab
             /\ log[i].tabId = tabAtCall
          \/ /\ i > 1
             /\ i - 1 \in Provisionings(log)
             /\ log[i].tabId = log[i - 1].tab
    /\ \A p \in Provisionings(log) :
          \A i \in 1..(p - 1) : log[i].fn = "invokeTab" /\ log[i].status = "rejected"

C5_Bounded ==
    /\ \A c \in BagToSet(inflight) : Channel(c) => WellOrdered(c.log, c.tabAtCall)
    /\ ViaChannel => WellOrdered(ret.log, ret.tabAtCall)

\* A suspended call that runs on either completes or awaits one more
\* collaborator call; it never goes back.
C5_Progress ==
    \A c \in BagToSet(inflight) : (Channel(c) /\ Acted(c)) =>
        \/ /\ ret'.op # "none"
           /\ Len(ret'.log) = Len(c.log)
           /\ \A d \in BagToSet(inflight') : ~Arrived(d)
        \/ /\ ret'.op = "none"
           /\ \E d \in BagToSet(inflight') :
                 /\ Arrived(d)
                 /\ Len(d.log) = Len(c.log) + 1

ChannelBusy == \E c \in BagToSet(inflight) : Channel(c)

\* C5: one call of _invoke makes at most two deliveries (at most one to the
\* tab recorded at its start, then at most one to a new tab) and at most one
\* getOrCreateSearchPopup call; every settled await takes it one step
\* further and never back, so while the awaited promises keep settling,
\* suspended calls keep completing (by a return or a throw).
C5_BoundedAttemptsAndTermination ==
    /\ []C5_Bounded
    /\ [][C5_Progress]_vars
    /\ (ChannelBusy ~> (ViaChannel /\ ret.log # << >>))

\* A call went through all three collaborator calls and completed.
C5_Witness ==
    /\ ViaChannel
    /\ Len(ret.log) = 3
    /\ Cardinality(Deliveries(ret.log)) = 2
    /\ Cardinality(Provisionings(ret.log)) = 1

----------------------------------------------------------------------------
RejectedDeliveries(log) == Deliveries(log) \cap Rejections(log)

DeliveryErrorThrown == ret.invokeOutcome = "threw" /\ ret.invokeValue = DeliveryError

----------------------------------------------------------------------------
\* C7: getOrCreateSearchPopup is never called while webExtension.unloaded
\* is true, and the flag never turns false again; when the rejection of the
\* delivery to the recorded tab is handled under teardown, then even with
\* open = true the call asks for no window, sets _popupTabId to null and
\* returns undefined.
C7_NoProvisioningUnderTeardown ==
    [][ /\ unloaded => unloaded'
        /\ \A d \in BagToSet(inflight') :
              (Channel(d) /\ d.pc = "provision" /\ Arrived(d)) =>
                  ~unloaded /\ ~unloaded'
        /\ \A c \in BagToSet(inflight) : (ExistingRejectedStep(c) /\ unloaded) =>
              /\ popupTabId' = NoTab
              /\ ret'.op # "none"
              /\ ret'.invokeOutcome = "returned"
              /\ ret'.invokeValue = Undefined
              /\ Len(ret'.log) = 1
              /\ \A d \in BagToSet(inflight') : ~Arrived(d)
      ]_vars

\* A call with open = true that began before the teardown had its delivery
\* rejected after it, and returned without asking for a window.
C7_Witness ==
    /\ ViaChannel
    /\ ret.open
    /\ ~ret.unloadedAtCall
    /\ unloaded
    /\ Len(ret.log) = 1
    /\ ret.log[1].status = "rejected"
    /\ popupTabId = NoTab

----------------------------------------------------------------------------
\* C8: showContent with displayDetails = null returns at once, whatever
\* _popupTabId and the teardown flag are: it never reaches _invoke, calls no
\* collaborator and leaves _popupTabId as it was.
C8_NullDetailsIsNoOp ==
    /\ \A c \in BagToSet(inflight) : c.op = "showContent" => c.args[2] # JsNull
    /\ (ret.op = "showContent" /\ ret.args[2] = JsNull) =>
          /\ ~ret.invoked
          /\ ret.outcome = "returned"
          /\ ret.value = Undefined
          /\ ret.log = << >>
          /\ popupTabId = ret.tabAtCall
          /\ unloaded = ret.unloadedAtCall

\* showContent(details, null) returned on a popup that has a tab recorded
\* and is not torn down, where details would have been sent.
C8_Witness ==
    /\ ret.op = "showContent"
    /\ ret.args[2] = JsNull
    /\ ret.tabAtCall # NoTab
    /\ ~ret.unloadedAtCall

----------------------------------------------------------------------------
UnsupportedMembers == {"set parent", "set child", "isVisibleSync"}
NullMembers        == {"get parent", "get child"}

\* The member that completed in this step left the popup as it was.
Untouched == UNCHANGED <<id, depth, frameId, popupTabId, unloaded, inflight>>

\* C9: reading parent or child gives null; assigning parent, assigning
\* child and isVisibleSync throw 'Not supported on PopupWindow'; none of
\* them calls a collaborator or changes _popupTabId, _id, _depth, _frameId.
C9_ParentChildUnsupported ==
    /\ [](ret.op \in NullMembers =>
              /\ ret.outcome = "returned"
              /\ ret.value = JsNull
              /\ ret.log = << >>)
    /\ [](ret.op \in UnsupportedMembers =>
              /\ ret.outcome = "threw"
              /\ ret.value = NotSupported
              /\ ret.log = << >>)
    /\ [][ret'.op \in (NullMembers \cup UnsupportedMembers) => Untouched]_vars

\* An assignment to parent threw while a tab was recorded and a call of
\* _invoke was suspended.
C9_Witness ==
    /\ ret.op = "set parent"
    /\ ret.outcome = "threw"
    /\ popupTabId # NoTab
    /\ inflight # EmptyBag

----------------------------------------------------------------------------
NoOpMembers == {"hide", "setContentScale", "updateTheme", "setCustomOuterCss"}
FalseMembers == {"clearVisibleOverride", "containsPoint", "setFrameSize"}
InertMembers ==
    NoOpMembers \cup FalseMembers \cup
    {"setVisibleOverride", "getFrameRect", "getFrameSize"}

\* C10: the members that mean nothing for a popup in its own window give
\* their inert default, call no collaborator and leave _popupTabId alone:
\* setVisibleOverride null, clearVisibleOverride / containsPoint /
\* setFrameSize false, getFrameRect the zero rect with valid = false,
\* getFrameSize the zero size with valid = false, and hide,
\* setContentScale, updateTheme, setCustomOuterCss nothing.
C10_InertDefaults ==
    /\ [](ret.op \in InertMembers => ret.outcome = "returned" /\ ret.log = << >>)
    /\ [](ret.op = "setVisibleOverride" => ret.value = JsNull)
    /\ [](ret.op \in FalseMembers => ret.value = JsFalse)
    /\ [](ret.op \in NoOpMembers => ret.value = Undefined)
    /\ [](ret.op = "getFrameRect" =>
              ret.value = [left |-> 0, top |-> 0, right |-> 0, bottom |-> 0,
                           valid |-> FALSE])
    /\ [](ret.op = "getFrameSize" =>
              ret.value = [width |-> 0, height |-> 0, valid |-> FALSE])
    /\ [][ret'.op \in InertMembers => Untouched]_vars

\* setVisibleOverride(true, 10) returned while a tab was recorded.
C10_Witness ==
    /\ ret.op = "setVisibleOverride"
    /\ ret.args = <<JsTrue, 10>>
    /\ popupTabId # NoTab

----------------------------------------------------------------------------
\* The log of a call of isVisible is one isTabSearchPopup call about tabId.
OneQuery(log, tabId) ==
    /\ Len(log) = 1
    /\ log[1].fn = "isTabSearchPopup"
    /\ log[1].tabId = tabId

C11_Answer ==
    /\ \A c \in BagToSet(inflight) : c.pc = "query" =>
          /\ c.tabAtCall # NoTab
          /\ OneQuery(c.log, c.tabAtCall)
          /\ c.log[1].status = "pending"
    /\ ret.op = "isVisible" =>
          /\ ret.tabAtCall = NoTab =>
                /\ ret.outcome = "returned"
                /\ ret.value = JsFalse
                /\ ret.log = << >>
          /\ ret.tabAtCall # NoTab =>
                /\ OneQuery(ret.log, ret.tabAtCall)
                /\ ret.log[1].status = "resolved" =>
                      /\ ret.outcome = "returned"
                      /\ ret.value = ret.log[1].answer
                /\ ret.outcome = "returned" => ret.log[1].status = "resolved"

C11_Step ==
    /\ \A c \in BagToSet(inflight) :
          (c.pc = "query" /\ Acted(c)) => popupTabId' = popupTabId
    /\ \A d \in BagToSet(inflight') :
          (d.pc = "query" /\ Arrived(d)) => popupTabId' = popupTabId
    /\ ret'.op = "isVisible" => popupTabId' = popupTabId

\* C11: isVisible returns false without calling any collaborator when
\* _popupTabId is null; otherwise it makes one isTabSearchPopup call about
\* the value _popupTabId had at the call and returns exactly its answer.
\* In both cases it never assigns _popupTabId and calls neither
\* getOrCreateSearchPopup nor invokeTab.
C11_IsVisibleQueriesOnly == []C11_Answer /\ [][C11_Step]_vars

\* isVisible returned the answer true about a recorded tab.
C11_Witness ==
    /\ ret.op = "isVisible"
    /\ ret.tabAtCall # NoTab
    /\ ret.outcome = "returned"
    /\ ret.value = JsTrue

----------------------------------------------------------------------------
\* Every invokeTab call in the log goes to frame 0 under the action
\* displayPopupMessage2 and carries the one message {action, params}.
Addressed(log, action, params) ==
    \A i \in Deliveries(log) :
        /\ log[i].frameId = 0
        /\ log[i].action = "displayPopupMessage2"
        /\ log[i].message = [action |-> action, params |-> params]
        /\ log[i].tabId # NoTab

C12_Envelope ==
    /\ \A c \in BagToSet(inflight) : Channel(c) =>
          Addressed(c.log, c.action, c.params)
    /\ ViaChannel => Addressed(ret.log, ret.action, ret.params)

\* A delivery that starts in this step goes to the tab _popupTabId holds
\* when invokeTab is called.
C12_Step ==
    \A d \in BagToSet(inflight') :
        (Arrived(d) /\ d.pc \in {"existing", "fresh"}) =>
            /\ d.log[Len(d.log)].fn = "invokeTab"
            /\ d.log[Len(d.log)].status = "pending"
            /\ d.log[Len(d.log)].tabId = popupTabId'

\* C12: every delivery of _invoke, to the recorded tab or to the fresh one,
\* goes to frame 0 whatever frame id the popup was constructed with, under
\* the action displayPopupMessage2, with the one message {action, params}
\* made of the arguments of that _invoke call, and to the tab that
\* _popupTabId holds at the moment of the invokeTab call.
C12_DeliveryEnvelope == []C12_Envelope /\ [][C12_Step]_vars

\* A popup constructed with frame id 3 delivered to both the recorded and
\* the fresh tab.
C12_Witness ==
    /\ frameId # 0
    /\ ViaChannel
    /\ Len(ret.log) = 3
    /\ ret.log[3].status = "resolved"

----------------------------------------------------------------------------
\* The last invokeTab call of the log was rejected.
LastDeliveryRejected(log) ==
    /\ Deliveries(log) # {}
    /\ LET last == CHOOSE i \in Deliveries(log) :
                       \A j \in Deliveries(log) : j <= i
       IN  log[last].status = "rejected"

\* C13: every rejected delivery takes _popupTabId from a tab id to null:
\* whenever a call of _invoke completes, by a return or a throw, after its
\* last delivery was rejected, _popupTabId is null.
C13_FailedDeliveryClearsHandle ==
    (ViaChannel /\ LastDeliveryRejected(ret.log)) => popupTabId = NoTab

----------------------------------------------------------------------------
\* The tab the last invokeTab call of the log went to.
LastDeliveryTab(log) ==
    log[CHOOSE i \in Deliveries(log) : \A j \in Deliveries(log) : j <= i].tabId

\* The call that completed in the last step had its last delivery rejected,
\* and _popupTabId is still the tab of that delivery.
FailedAgainstRecordedTab ==
    /\ ViaChannel
    /\ LastDeliveryRejected(ret.log)
    /\ popupTabId # NoTab
    /\ popupTabId = LastDeliveryTab(ret.log)

\* C14: _invoke never delivers again to a recorded tab that a delivery has
\* already failed against, unless getOrCreateSearchPopup has recorded the
\* tab again in between.  Stated for the step that follows the failure,
\* where nothing has been recorded in between: no call starts a delivery
\* to the tab that _popupTabId holds.
C14_NoRetryAgainstFailedHandle ==
    [][FailedAgainstRecordedTab =>
          \A d \in BagToSet(inflight') :
              ~(Arrived(d) /\ d.pc = "existing"
                /\ d.log[1].tabId = popupTabId)]_vars

----------------------------------------------------------------------------
\* A call that found _popupTabId null waits for getOrCreateSearchPopup.
Provisioning(c) == Channel(c) /\ c.pc = "provision" /\ c.tabAtCall = NoTab

\* The number of such calls.
ProvisioningOutstanding ==
    BagCardinality([c \in {x \in BagToSet(inflight) : Provisioning(x)}
                       |-> CopiesIn(c, inflight)])

\* C15: window creation is not serialized.  Calls of _invoke with open =
\* true that overlap while _popupTabId is null each call
\* getOrCreateSearchPopup before any of them has recorded a tab, and every
\* resolution of getOrCreateSearchPopup assigns its tab id to _popupTabId,
\* over whatever an earlier resolution recorded: the id that stays is that
\* of the call that resolves last.
C15_LastProvisioningWins ==
    [][\A c \in BagToSet(inflight), t \in Tabs :
          (/\ c.pc = "provision"
           /\ Acted(c)
           /\ \E d \in BagToSet(inflight') :
                 /\ Arrived(d)
                 /\ d.pc = "fresh"
                 /\ d.log[Len(c.log)].fn = "getOrCreateSearchPopup"
                 /\ d.log[Len(c.log)].tab = t)
          => popupTabId' = t]_vars

\* Two calls wait for getOrCreateSearchPopup and no tab is recorded yet.
C15_Witness ==
    /\ popupTabId = NoTab
    /\ ProvisioningOutstanding = 2

----------------------------------------------------------------------------
\* The statement of C16 as it was made: no call through _invoke that
\* completes once webExtension.unloaded is true throws; calls that were
\* suspended when the flag became true included.
C16_NoErrorAfterTeardown ==
    (ViaChannel /\ unloaded) => ret.invokeOutcome = "returned"

\* The await whose rejection made the completed call throw.
ThrownAt ==
    IF ret.log[Len(ret.log)].fn = "getOrCreateSearchPopup" THEN "provision"
    ELSE IF Len(ret.log) = 1 /\ ret.tabAtCall # NoTab THEN "existing"
    ELSE "fresh"

\* C16 (amended): a call through _invoke that starts when
\* webExtension.unloaded is true returns undefined and throws nothing.  A
\* call suspended at the delivery to the recorded tab when the flag
\* becomes true throws nothing either: if that delivery is rejected, it
\* returns undefined without asking for a window.  A call suspended at
\* getOrCreateSearchPopup or at the delivery to the new tab still throws
\* when that await is rejected, teardown or not.
C16_TeardownSilencesFirstDeliveryOnly ==
    /\ (ViaChannel /\ ret.unloadedAtCall) =>
          /\ ret.invokeOutcome = "returned"
          /\ ret.invokeValue = Undefined
    /\ (ViaChannel /\ unloaded /\ ret.log # << >>
          /\ ret.log[Len(ret.log)].status = "rejected") =>
          /\ ThrownAt = "existing" =>
                /\ ret.invokeOutcome = "returned"
                /\ ret.invokeValue = Undefined
          /\ ThrownAt = "provision" =>
                /\ ret.invokeOutcome = "threw"
                /\ ret.invokeValue = ProvisioningError
          /\ ThrownAt = "fresh" =>
                /\ ret.invokeOutcome = "threw"
                /\ ret.invokeValue = DeliveryError
    /\ (ViaChannel /\ unloaded /\ ret.invokeOutcome = "threw") =>
          /\ ~ret.unloadedAtCall
          /\ ret.log # << >>
          /\ ret.log[Len(ret.log)].status = "rejected"
          /\ ThrownAt \in {"provision", "fresh"}

\* showContent was suspended at the delivery to the recorded tab when the
\* flag became true; the delivery was rejected and the call returned.
C16_Witness ==
    /\ ViaChannel
    /\ unloaded
    /\ ~ret.unloadedAtCall
    /\ ret.open
    /\ Len(ret.log) = 1
    /\ ret.log[1].status = "rejected"
    /\ ret.invokeOutcome = "returned"

----------------------------------------------------------------------------
\* showContent with non-null details completed while webExtension.unloaded
\* was false throughout, and nothing failed in it but, at most, the
\* delivery to the tab recorded at its start.
ShownWithWorkingProvisioning ==
    /\ ViaChannel
    /\ ret.op = "showContent"
    /\ ~unloaded
    /\ \A i \in Rejections(ret.log) :
          /\ i = 1
          /\ ret.log[i].fn = "invokeTab"
          /\ ret.tabAtCall # NoTab

----------------------------------------------------------------------------
\* The delivery that the suspended call c sent to the tab recorded at its
\* start is rejected in this step, while _popupTabId holds another tab.
StaleRejectedStep(c) ==
    /\ ExistingRejectedStep(c)
    /\ popupTabId # NoTab
    /\ popupTabId # c.log[1].tabId

----------------------------------------------------------------------------
\* Once getOrCreateSearchPopup is rejected the call is over: the rejected
\* call is the last entry of the log, and the error is thrown.
C19_Log ==
    /\ \A c \in BagToSet(inflight) : Channel(c) =>
          \A i \in Provisionings(c.log) : c.log[i].status # "rejected"
    /\ ViaChannel =>
          \A i \in Provisionings(ret.log) :
              ret.log[i].status = "rejected" =>
                  /\ i = Len(ret.log)
                  /\ ret.invokeOutcome = "threw"
                  /\ ret.invokeValue = ProvisioningError
                  /\ ret.outcome = "threw"
                  /\ ret.value = ProvisioningError

\* The step in which getOrCreateSearchPopup is rejected completes the call,
\* starts nothing and leaves _popupTabId as it is.
C19_Step ==
    \A c \in BagToSet(inflight) :
        (c.pc = "provision" /\ Acted(c)
            /\ ~\E d \in BagToSet(inflight') : Arrived(d) /\ d.pc = "fresh") =>
            /\ ret'.op = c.op
            /\ ret'.invoked
            /\ ret'.log[Len(ret'.log)].fn = "getOrCreateSearchPopup"
            /\ ret'.log[Len(ret'.log)].status = "rejected"
            /\ \A d \in BagToSet(inflight') : ~Arrived(d)
            /\ popupTabId' = popupTabId

\* C19: when the getOrCreateSearchPopup call of _invoke is rejected, the
\* error is thrown to the caller, no invokeTab call follows it, and the
\* call does not assign _popupTabId: it stays null unless an overlapping
\* call records a tab.
C19_ProvisioningFailurePropagates == []C19_Log /\ [][C19_Step]_vars

\* The delivery to the recorded tab failed, then the request for a new
\* window failed too: the caller got that error and no tab is recorded.
C19_Witness ==
    /\ ViaChannel
    /\ Len(ret.log) = 2
    /\ ret.log[2].fn = "getOrCreateSearchPopup"
    /\ ret.log[2].status = "rejected"
    /\ ret.outcome = "threw"
    /\ popupTabId = NoTab

----------------------------------------------------------------------------
\* The list of ranges in the order p, a permutation of its indices.
Reordered(ranges, p) == [i \in 1..Len(ranges) |-> ranges[p[i]]]

\* C20: isCodePointInRange(codePoint, [min, max]) is true exactly when
\* min <= codePoint <= max, both ends included, and
\* isCodePointInRanges(codePoint, ranges) is true exactly when
\* isCodePointInRange(codePoint, r) is true of at least one r of the list:
\* false of the empty list, and the same in whatever order the ranges are.
C20_RangeMembership ==
    /\ verdict.fn = "isCodePointInRange" =>
          (verdict.value <=>
              (verdict.range[1] <= givenCodePoint
                  /\ givenCodePoint <= verdict.range[2]))
    /\ verdict.fn = "isCodePointInRanges" =>
          /\ verdict.value <=>
                \E i \in 1..Len(givenRanges) :
                    isCodePointInRange(givenCodePoint, givenRanges[i])
          /\ givenRanges = << >> => ~verdict.value
          /\ \A p \in Permutations(1..Len(givenRanges)) :
                isCodePointInRanges(givenCodePoint, Reordered(givenRanges, p))
                    <=> verdict.value

\* Only the second of two ranges holds the code point, which is its upper
\* end; isCodePointInRanges returned true.
C20_Witness ==
    /\ verdict.fn = "isCodePointInRanges"
    /\ verdict.value
    /\ Len(givenRanges) = 2
    /\ ~isCodePointInRange(givenCodePoint, givenRanges[1])
    /\ givenRanges[2][2] = givenCodePoint

====
